---- MODULE Spec2Model ----
(***************************************************************************)
(* Review service of src/app.py: the keyword sentiment analyzer, the       *)
(* SQLite review repository and the service that joins them, with the      *)
(* DELETE route handler that guards the service.                           *)
(*                                                                         *)
(* A Python str is a sequence of characters.  Each Cyrillic letter of the  *)
(* source is written as one ASCII token (ISO-9 style: "kh" is the letter   *)
(* kha, "yu" the letter yu, "soft" the soft sign); the capital of a letter *)
(* is the token in capitals ("KH").  " " and "\t" are whitespace.          *)
(***************************************************************************)
EXTENDS Integers, Sequences, FiniteSets

\* ---------------------------------------------------------------- bounds
\* most fragments a text handed to analyze in SpecAnalyze is made of
MaxFragments == 3
\* largest number of rows ever inserted (caps sqlite_sequence)
MaxReviews == 2
\* datetime.utcnow() reads one of the ticks 0..MaxClock
MaxClock == 1

\* ------------------------------------------------------- Python values
PyStr(chars) == [type |-> "str", chars |-> chars]
PyNone == [type |-> "NoneType", chars |-> <<>>]
PyInt == [type |-> "int", chars |-> <<>>]

Max(S) == CHOOSE m \in S : \A x \in S : x <= m
Min(S) == CHOOSE m \in S : \A x \in S : m <= x
Range(s) == {s[i] : i \in 1..Len(s)}

\* str.isspace for the characters of the model
IsSpace(c) == c \in {" ", "\t"}

\* str.strip(): the text without its leading and trailing whitespace
strip(s) ==
    LET solid == {i \in 1..Len(s) : ~IsSpace(s[i])}
    IN  IF solid = {} THEN <<>> ELSE SubSeq(s, Min(solid), Max(solid))

UpperCase ==
    { "A", "B", "V", "G", "D", "E", "ZH", "Z", "I", "J", "K", "L", "M", "N", "O", "P", "R", "S", "T", "U", "F", "KH", "C", "CH", "SH", "SHCH", "HARD", "Y", "SOFT", "EH", "YU", "YA" }

LowerCaseOf ==
    [c \in UpperCase |->
        CASE c = "A" -> "a"
          [] c = "B" -> "b"
          [] c = "V" -> "v"
          [] c = "G" -> "g"
          [] c = "D" -> "d"
          [] c = "E" -> "e"
          [] c = "ZH" -> "zh"
          [] c = "Z" -> "z"
          [] c = "I" -> "i"
          [] c = "J" -> "j"
          [] c = "K" -> "k"
          [] c = "L" -> "l"
          [] c = "M" -> "m"
          [] c = "N" -> "n"
          [] c = "O" -> "o"
          [] c = "P" -> "p"
          [] c = "R" -> "r"
          [] c = "S" -> "s"
          [] c = "T" -> "t"
          [] c = "U" -> "u"
          [] c = "F" -> "f"
          [] c = "KH" -> "kh"
          [] c = "C" -> "c"
          [] c = "CH" -> "ch"
          [] c = "SH" -> "sh"
          [] c = "SHCH" -> "shch"
          [] c = "HARD" -> "hard"
          [] c = "Y" -> "y"
          [] c = "SOFT" -> "soft"
          [] c = "EH" -> "eh"
          [] c = "YU" -> "yu"
          [] c = "YA" -> "ya"]

\* str.lower(): capitals become small letters, everything else is kept
lower(s) == [i \in 1..Len(s) |-> IF s[i] \in UpperCase THEN LowerCaseOf[s[i]] ELSE s[i]]

\* word in s: w is a contiguous substring of s
Contains(s, w) ==
    \E i \in 0..(Len(s) - Len(w)) : SubSeq(s, i + 1, i + Len(w)) = w

\* ------------------------------------------------------ SentimentAnalyzer
POSITIVE_WORDS ==
    { <<"kh", "o", "r", "o", "sh">>,
      <<"kh", "o", "r", "o", "sh", "o">>,
      <<"o", "t", "l", "i", "ch", "n">>,
      <<"p", "r", "e", "k", "r", "a", "s", "n">>,
      <<"l", "yu", "b", "l", "yu">>,
      <<"n", "r", "a", "v", "i", "t", "s", "ya">>,
      <<"s", "u", "p", "e", "r">>,
      <<"k", "l", "a", "s", "s">>,
      <<"v", "o", "s", "kh", "i", "t", "i", "t", "e", "l", "soft", "n">>,
      <<"l", "u", "ch", "sh">>,
      <<"z", "a", "m", "e", "ch", "a", "t", "e", "l", "soft", "n">>,
      <<"p", "r", "e", "v", "o", "s", "kh", "o", "d", "n">>,
      <<"u", "d", "o", "b", "n">>,
      <<"r", "e", "k", "o", "m", "e", "n", "d", "u", "yu">>,
      <<"d", "o", "v", "o", "l", "e", "n">>,
      <<"v", "e", "l", "i", "k", "o", "l", "e", "p", "n">>,
      <<"b", "e", "z", "u", "p", "r", "e", "ch", "n">>,
      <<"i", "d", "e", "a", "l", "soft", "n">>,
      <<"p", "r", "e", "k", "r", "a", "s", "n", "o">>,
      <<"o", "t", "l", "i", "ch", "n", "o">> }

NEGATIVE_WORDS ==
    { <<"p", "l", "o", "kh">>,
      <<"p", "l", "o", "kh", "o">>,
      <<"u", "zh", "a", "s", "n">>,
      <<"n", "e", "n", "a", "v", "i", "zh">>,
      <<"o", "t", "v", "r", "a", "t", "i", "t", "e", "l", "soft", "n">>,
      <<"k", "o", "sh", "m", "a", "r">>,
      <<"r", "a", "z", "o", "ch", "a", "r", "o", "v", "a", "n">>,
      <<"n", "e", "u", "d", "o", "b", "n">>,
      <<"kh", "u", "d", "sh">>,
      <<"n", "e", "d", "o", "s", "t", "a", "t", "o", "k">>,
      <<"p", "r", "o", "b", "l", "e", "m">>,
      <<"n", "e", "d", "o", "s", "t", "a", "t">>,
      <<"n", "e", "d", "o", "v", "o", "l", "e", "n">>,
      <<"n", "e", "k", "a", "ch", "e", "s", "t", "v", "e", "n">>,
      <<"u", "zh", "a", "s", "n", "o">>,
      <<"n", "e", "d", "o", "v", "o", "l", "soft">>,
      <<"o", "t", "v", "r", "a", "t", "n", "o">>,
      <<"o", "t", "v", "r", "a", "t", "i", "t", "e", "l", "soft", "n", "o">>,
      <<"m", "e", "r", "z", "o", "s", "t">>,
      <<"n", "e", "p", "r", "i", "ya", "t", "n">>,
      <<"n", "e", " ", "n", "r", "a", "v", "i", "t", "s", "ya">> }

negative_phrases ==
    { <<"n", "e", " ", "n", "r", "a", "v", "i", "t", "s", "ya">>,
      <<"n", "e", " ", "l", "yu", "b", "l", "yu">>,
      <<"n", "e", " ", "kh", "o", "ch", "u">> }

\* analyze with the two lexicons consulted in the other order
analyze_negative_first(text) ==
    IF text.type # "str" THEN "ValueError"
    ELSE IF strip(text.chars) = <<>> THEN "neutral"
    ELSE LET text_lower == lower(text.chars)
         IN  IF \E phrase \in negative_phrases : Contains(text_lower, phrase)
                 THEN "negative"
             ELSE IF \E word \in NEGATIVE_WORDS : Contains(text_lower, word)
                 THEN "negative"
             ELSE IF \E word \in POSITIVE_WORDS : Contains(text_lower, word)
                 THEN "positive"
             ELSE "neutral"

\* SentimentAnalyzer.analyze: the label of a text, or "ValueError" when the
\* argument is not a str
analyze(text) ==
    IF text.type # "str" THEN "ValueError"
    ELSE IF strip(text.chars) = <<>> THEN "neutral"
    ELSE LET text_lower == lower(text.chars)
         IN  IF \E phrase \in negative_phrases : Contains(text_lower, phrase)
                 THEN "negative"
             ELSE IF \E word \in POSITIVE_WORDS : Contains(text_lower, word)
                 THEN "positive"
             ELSE IF \E word \in NEGATIVE_WORDS : Contains(text_lower, word)
                 THEN "negative"
             ELSE "neutral"

Sentiments == {"positive", "negative", "neutral"}

\* a filter argument: a str kept as one atom (PyLabel("") is the empty str),
\* or None
PyLabel(s) == [type |-> "str", label |-> s]
NoLabel == [type |-> "NoneType", label |-> ""]

\* ------------------------------------------------------- ReviewRepository
\* the rowids of a table
Ids(table) == {table[i].id : i \in 1..Len(table)}

\* a rowid chosen as for a plain INTEGER PRIMARY KEY: one past the largest
\* rowid now in the table
NextRowid_without_autoincrement(table, seq) ==
    IF table = <<>> THEN 1 ELSE Max(Ids(table)) + 1

\* id INTEGER PRIMARY KEY AUTOINCREMENT: one past the largest rowid the table
\* has ever held, which sqlite_sequence records
NextRowid(table, seq) == Max(Ids(table) \cup {seq}) + 1

\* ReviewRepository.create: the INSERT appends the row, and the dict returned
\* carries cursor.lastrowid
ReviewRepository_create(table, seq, chars, sentiment, created_at) ==
    LET row == [id |-> NextRowid(table, seq), text |-> chars,
                sentiment |-> sentiment, created_at |-> created_at]
    IN  [raised |-> "", reviews |-> Append(table, row),
         sqlite_sequence |-> row.id, returned |-> <<row>>]

\* find_all that never adds the WHERE clause
find_all_unfiltered(table, sentiment) == table

\* ReviewRepository.find_all: SELECT * FROM reviews, with WHERE sentiment = ?
\* when the argument is truthy
find_all(table, sentiment) ==
    IF sentiment.type = "str" /\ sentiment.label # ""
        THEN SelectSeq(table, LAMBDA row : row.sentiment = sentiment.label)
        ELSE table

\* delete that reports success whatever rowcount is
ReviewRepository_delete_always_true(table, review_id) ==
    [reviews |-> SelectSeq(table, LAMBDA row : row.id # review_id),
     returned |-> TRUE]

\* delete with WHERE id <= ?
ReviewRepository_delete_up_to(table, review_id) ==
    LET kept == SelectSeq(table, LAMBDA row : row.id > review_id)
    IN  [reviews |-> kept, returned |-> Len(table) - Len(kept) > 0]

\* ReviewRepository.delete: DELETE FROM reviews WHERE id = ?, returning
\* cursor.rowcount > 0
ReviewRepository_delete(table, review_id) ==
    LET kept == SelectSeq(table, LAMBDA row : row.id # review_id)
    IN  [reviews |-> kept, returned |-> Len(table) - Len(kept) > 0]

\* ----------------------------------------------------------- ReviewService
\* create_review that tests the text without stripping it
create_review_unstripped(table, seq, text_arg, now) ==
    IF text_arg.type # "str" \/ text_arg.chars = <<>>
        THEN [raised |-> "ValueError", reviews |-> table,
              sqlite_sequence |-> seq, returned |-> <<>>]
        ELSE ReviewRepository_create(table, seq, text_arg.chars,
                                     analyze(text_arg), now)

\* create_review that stores every str it is given
create_review_unvalidated(table, seq, text_arg, now) ==
    IF text_arg.type # "str"
        THEN [raised |-> "ValueError", reviews |-> table,
              sqlite_sequence |-> seq, returned |-> <<>>]
        ELSE ReviewRepository_create(table, seq, text_arg.chars,
                                     analyze(text_arg), now)

\* create_review that stores the stripped text
create_review_stripped(table, seq, text_arg, now) ==
    IF text_arg.type # "str" \/ strip(text_arg.chars) = <<>>
        THEN [raised |-> "ValueError", reviews |-> table,
              sqlite_sequence |-> seq, returned |-> <<>>]
        ELSE ReviewRepository_create(table, seq, strip(text_arg.chars),
                                     analyze(text_arg), now)

\* ReviewService.create_review: ValueError unless the text is a str that is
\* not blank; otherwise the analyzer's label and the repository's insert
ReviewService_create_review(table, seq, text_arg, now) ==
    IF text_arg.type # "str" \/ strip(text_arg.chars) = <<>>
        THEN [raised |-> "ValueError", reviews |-> table,
              sqlite_sequence |-> seq, returned |-> <<>>]
        ELSE ReviewRepository_create(table, seq, text_arg.chars,
                                     analyze(text_arg), now)

\* ReviewService.get_reviews
ReviewService_get_reviews(table, sentiment) == find_all(table, sentiment)

\* ReviewService.delete_review
ReviewService_delete_review(table, review_id) ==
    ReviewRepository_delete(table, review_id)

\* ------------------------------------------------------------ DELETE route
\* the handler with the guard review_id < 0
route_delete_review_allows_zero(table, review_id) ==
    IF review_id < 0
        THEN [status |-> 400, reviews |-> table, returned |-> FALSE]
        ELSE LET done == ReviewService_delete_review(table, review_id)
             IN  [status |-> IF done.returned THEN 200 ELSE 404,
                  reviews |-> done.reviews, returned |-> done.returned]

\* delete_review for DELETE /reviews/<int:review_id>: 400 unless the id is
\* positive, else 200 or 404 by what the service returns
route_delete_review(table, review_id) ==
    IF review_id <= 0
        THEN [status |-> 400, reviews |-> table, returned |-> FALSE]
        ELSE LET done == ReviewService_delete_review(table, review_id)
             IN  [status |-> IF done.returned THEN 200 ELSE 404,
                  reviews |-> done.reviews, returned |-> done.returned]

\* ------------------------------------------------------------------ state
VARIABLES
    reviews,          \* table reviews: its rows, in rowid order
    sqlite_sequence,  \* AUTOINCREMENT: the largest rowid the table ever held
    call,             \* the last call made and what it returned
    assigned,         \* history: the ids create returned, in creation order
    created,          \* history: [id, text] of each create_review whose id
                      \* no later delete call named
    text,             \* the argument handed to SentimentAnalyzer.analyze
    label             \* what analyze returned for it ("pending" before)

vars == <<reviews, sqlite_sequence, call, assigned, created, text, label>>
store_vars == <<reviews, sqlite_sequence, call, assigned, created>>

NoCall ==
    [op |-> "none", text |-> PyNone, review_id |-> 0, sentiment |-> NoLabel,
     raised |-> "", rows |-> <<>>, deleted |-> FALSE, status |-> 0]

\* ReviewRepository.__init__ on a fresh database file; no text analysed yet
Init ==
    /\ reviews = <<>>
    /\ sqlite_sequence = 0
    /\ call = NoCall
    /\ assigned = <<>>
    /\ created = {}
    /\ text = PyStr(<<>>)
    /\ label = "pending"

\* ------------------------------------------------------------ the calls
\* texts submitted to create_review: None, an int, "", blank, and four
\* reviews (a capitalised positive one, a padded negative one, a neutral
\* one, a negated phrase)
SubmittedTexts ==
    { PyNone, PyInt, PyStr(<<>>), PyStr(<<" ", "\t">>),
      PyStr(<<"KH", "o", "r", "o", "sh">>),
      PyStr(<<" ", "p", "l", "o", "kh", "\t">>),
      PyStr(<<"t", "o", "v", "a", "r">>),
      PyStr(<<"n", "e", " ", "l", "yu", "b", "l", "yu">>) }

\* filters handed to get_reviews: none, the three labels, "", and two
\* strings that are no label
SubmittedFilters ==
    { NoLabel, PyLabel("positive"), PyLabel("negative"), PyLabel("neutral"),
      PyLabel(""), PyLabel("Positive"), PyLabel("good") }

\* ids handed to ReviewService.delete_review
SubmittedIds == (-1)..(MaxReviews + 1)

\* ids the <int:review_id> converter lets through: no sign, so none negative
RoutedIds == 0..(MaxReviews + 1)

\* service.create_review(text), reading datetime.utcnow() as now
create_review ==
    \E text_arg \in SubmittedTexts, now \in 0..MaxClock :
        \E done \in {ReviewService_create_review(reviews, sqlite_sequence,
                                                text_arg, now)} :
            /\ done.raised # "" \/ sqlite_sequence < MaxReviews
            /\ reviews' = done.reviews
            /\ sqlite_sequence' = done.sqlite_sequence
            /\ call' = [NoCall EXCEPT !.op = "create_review",
                                      !.text = text_arg,
                                      !.raised = done.raised,
                                      !.rows = done.returned]
            /\ assigned' = IF done.raised = ""
                               THEN Append(assigned, done.returned[1].id)
                               ELSE assigned
            /\ created' = IF done.raised = ""
                              THEN created \cup {[id |-> done.returned[1].id,
                                                  text |-> text_arg]}
                              ELSE created
            /\ UNCHANGED <<text, label>>

\* service.get_reviews(sentiment)
get_reviews ==
    \E sentiment \in SubmittedFilters :
        /\ call' = [NoCall EXCEPT !.op = "get_reviews",
                                  !.sentiment = sentiment,
                                  !.rows = ReviewService_get_reviews(reviews, sentiment)]
        /\ UNCHANGED <<reviews, sqlite_sequence, assigned, created, text, label>>

\* service.delete_review(review_id)
delete_review ==
    \E review_id \in SubmittedIds :
        LET done == ReviewService_delete_review(reviews, review_id)
        IN  /\ reviews' = done.reviews
            /\ call' = [NoCall EXCEPT !.op = "delete_review",
                                      !.review_id = review_id,
                                      !.deleted = done.returned]
            /\ created' = {c \in created : c.id # review_id}
            /\ UNCHANGED <<sqlite_sequence, assigned, text, label>>

\* DELETE /reviews/<int:review_id>
http_delete_review ==
    \E review_id \in RoutedIds :
        LET done == route_delete_review(reviews, review_id)
        IN  /\ reviews' = done.reviews
            /\ call' = [NoCall EXCEPT !.op = "DELETE /reviews/<id>",
                                      !.review_id = review_id,
                                      !.deleted = done.returned,
                                      !.status = done.status]
            /\ created' = IF done.status = 400 THEN created
                          ELSE {c \in created : c.id # review_id}
            /\ UNCHANGED <<sqlite_sequence, assigned, text, label>>

Next == create_review \/ get_reviews \/ delete_review \/ http_delete_review

Spec == Init /\ [][Next]_vars

\* ------------------------------------------------- analyzer on its own
\* pieces a caller's text is put together from
Fragments ==
    { <<" ">>, <<"\t">>, <<"!">>,
      <<"n", "e">>,
      <<"l", "yu", "b", "l", "yu">>,
      <<"kh", "o", "ch", "u">>,
      <<"n", "r", "a", "v", "i", "t", "s", "ya">>,
      <<"p", "l", "o", "kh">>,
      <<"KH", "o", "r", "o", "sh">>,
      <<"P", "L", "O", "KH", "O">>,
      <<"t", "o", "v", "a", "r">> }

\* every text made of at most n fragments
RECURSIVE TextsOf(_)
TextsOf(n) ==
    IF n = 0 THEN {<<>>}
    ELSE LET shorter == TextsOf(n - 1)
         IN  shorter \cup {t \o f : t \in shorter, f \in Fragments}

\* the arguments analyze is called with: every such text, None and an int
\* (test_analyze_invalid_input)
AnalyzeArguments ==
    {PyStr(t) : t \in TextsOf(MaxFragments)} \cup {PyNone, PyInt}

InitAnalyze ==
    /\ reviews = <<>>
    /\ sqlite_sequence = 0
    /\ call = NoCall
    /\ assigned = <<>>
    /\ created = {}
    /\ text \in AnalyzeArguments
    /\ label = "pending"

\* SentimentAnalyzer.analyze(text)
call_analyze ==
    /\ label = "pending"
    /\ label' = analyze(text)
    /\ UNCHANGED <<text, store_vars>>

NextAnalyze == call_analyze

SpecAnalyze == InitAnalyze /\ [][NextAnalyze]_vars

\* ----------------------------------------------------------------- claims
HasNegatedPhrase(chars) ==
    \E phrase \in negative_phrases : Contains(lower(chars), phrase)
HasPositiveStem(chars) ==
    \E word \in POSITIVE_WORDS : Contains(lower(chars), word)
HasNegativeStem(chars) ==
    \E word \in NEGATIVE_WORDS : Contains(lower(chars), word)
Blank(chars) == \A i \in 1..Len(chars) : IsSpace(chars[i])
HasId(table, review_id) == \E i \in 1..Len(table) : table[i].id = review_id

\* C1: analyze follows a fixed priority whatever the position of the matches:
\* a negated phrase gives negative even beside positive stems; otherwise a
\* positive stem gives positive even beside negative stems; otherwise a
\* negative stem gives negative; otherwise, and for empty or blank text, the
\* label is neutral.
C1_AnalyzePriority ==
    (label # "pending" /\ text.type = "str") =>
        /\ HasNegatedPhrase(text.chars) => label = "negative"
        /\ (~HasNegatedPhrase(text.chars) /\ HasPositiveStem(text.chars))
               => label = "positive"
        /\ (~HasNegatedPhrase(text.chars) /\ ~HasPositiveStem(text.chars)
               /\ HasNegativeStem(text.chars)) => label = "negative"
        /\ (~HasNegatedPhrase(text.chars) /\ ~HasPositiveStem(text.chars)
               /\ ~HasNegativeStem(text.chars)) => label = "neutral"
        /\ Blank(text.chars) => label = "neutral"

\* a text with a negative stem before a positive one was labelled positive
C1_Witness ==
    /\ label = "positive"
    /\ \E i \in 1..Len(text.chars), j \in 1..Len(text.chars) :
        /\ i < j
        /\ HasNegativeStem(SubSeq(text.chars, 1, i))
        /\ ~HasPositiveStem(SubSeq(text.chars, 1, j - 1))
        /\ HasPositiveStem(text.chars)

\* C2: an unfiltered get_reviews returns, for every create_review(t) that
\* succeeded and whose id no delete call has named since, a record with the
\* returned id, the text t exactly as submitted and the sentiment analyze(t).
C2_RoundTrip ==
    (call.op = "get_reviews" /\ call.sentiment = NoLabel) =>
        \A c \in created :
            \E i \in 1..Len(call.rows) :
                /\ call.rows[i].id = c.id
                /\ call.rows[i].text = c.text.chars
                /\ call.rows[i].sentiment = analyze(c.text)

\* an unfiltered listing after creating a review whose text has padding or
\* capitals, with an earlier review deleted in between
C2_Witness ==
    /\ call.op = "get_reviews"
    /\ call.sentiment = NoLabel
    /\ Len(assigned) > Cardinality(created)
    /\ \E c \in created :
        c.text.chars # strip(c.text.chars) \/ c.text.chars # lower(c.text.chars)

\* C3: delete_review of an id that is not stored returns false, raises
\* nothing and leaves the store as it was; of an id that is stored it returns
\* true and removes it, and the same call made again returns false.
C3_DeleteAbsent ==
    [][ /\ call'.op = "delete_review" =>
            /\ call'.raised = ""
            /\ ~HasId(reviews, call'.review_id) =>
                   /\ call'.deleted = FALSE
                   /\ reviews' = reviews
                   /\ sqlite_sequence' = sqlite_sequence
            /\ HasId(reviews, call'.review_id) =>
                   /\ call'.deleted = TRUE
                   /\ ~HasId(reviews', call'.review_id)
        /\ (/\ call.op = "delete_review"
            /\ call.deleted
            /\ call'.op = "delete_review"
            /\ call'.review_id = call.review_id) => call'.deleted = FALSE
      ]_vars

\* delete_review has just returned false for an id that was assigned once
\* and deleted before, with other reviews still stored
C3_Witness ==
    /\ call.op = "delete_review"
    /\ call.deleted = FALSE
    /\ call.raised = ""
    /\ call.review_id \in Range(assigned)
    /\ reviews # <<>>

\* C4: get_reviews(s) for s a sentiment label returns exactly the stored
\* records whose sentiment is s, each once, and raises nothing (an empty list
\* when none match).
C4_FilterCorrect ==
    (call.op = "get_reviews" /\ call.sentiment.type = "str"
        /\ call.sentiment.label \in Sentiments) =>
        /\ call.raised = ""
        /\ Range(call.rows) =
               {r \in Range(reviews) : r.sentiment = call.sentiment.label}
        /\ Len(call.rows) = Cardinality(Range(call.rows))

\* a filtered listing that kept one stored review and left another out
C4_Witness ==
    /\ call.op = "get_reviews"
    /\ call.sentiment.type = "str"
    /\ call.sentiment.label \in Sentiments
    /\ call.rows # <<>>
    /\ Len(call.rows) < Len(reviews)

\* C5: ids are positive, unique and strictly increasing in creation order:
\* the first is 1, each later one exceeds every id assigned before, and no
\* id is assigned twice, deleted or not.
C5_IdsIncrease ==
    /\ \A i \in 1..Len(assigned) : assigned[i] > 0
    /\ \A i, j \in 1..Len(assigned) : i < j => assigned[i] < assigned[j]
    /\ assigned # <<>> => assigned[1] = 1
    /\ \A i, j \in 1..Len(reviews) : i # j => reviews[i].id # reviews[j].id
    /\ Ids(reviews) \subseteq Range(assigned)

\* a create that followed the deletion of every earlier review, the most
\* recently created one included
C5_Witness ==
    /\ call.op = "create_review"
    /\ call.raised = ""
    /\ Len(assigned) >= 2
    /\ Len(reviews) = 1

\* C6: create_review with None, a non-string or a blank text raises
\* ValueError, persists nothing and consumes no id.
C6_RejectsBlank ==
    [][ (call'.op = "create_review"
            /\ (call'.text.type # "str" \/ Blank(call'.text.chars))) =>
            /\ call'.raised = "ValueError"
            /\ call'.rows = <<>>
            /\ reviews' = reviews
            /\ sqlite_sequence' = sqlite_sequence
      ]_vars

\* a whitespace-only text was refused while reviews were stored
C6_Witness ==
    /\ call.op = "create_review"
    /\ call.raised = "ValueError"
    /\ call.text.type = "str"
    /\ call.text.chars # <<>>
    /\ reviews # <<>>

\* C7 as stated: the service operation delete_review raises a validation
\* error whenever the id is not a positive integer.
C7_ServiceValidatesId ==
    (call.op = "delete_review" /\ call.review_id <= 0) => call.raised # ""

\* C7 amended: the service operation delete_review validates nothing: for
\* every integer id it delegates to the store and returns the store's
\* boolean, which is false for an id that is not positive.  It is the DELETE
\* route handler that refuses an id that is not positive, with status 400
\* and without calling the service; for a positive id it answers 200 or 404
\* by the service's boolean.
C7_RouteValidatesId ==
    [][ /\ call'.op = "delete_review" =>
            /\ call'.raised = ""
            /\ call'.deleted = HasId(reviews, call'.review_id)
            /\ call'.review_id <= 0 => call'.deleted = FALSE
        /\ (call'.op = "DELETE /reviews/<id>" /\ call'.review_id <= 0) =>
            /\ call'.status = 400
            /\ reviews' = reviews
        /\ (call'.op = "DELETE /reviews/<id>" /\ call'.review_id > 0) =>
            /\ call'.status = IF HasId(reviews, call'.review_id) THEN 200 ELSE 404
            /\ ~HasId(reviews', call'.review_id)
      ]_vars

\* the service returned false, unraised, for an id that is not positive,
\* while reviews were stored
C7_Witness ==
    /\ call.op = "delete_review"
    /\ call.review_id <= 0
    /\ call.raised = ""
    /\ call.deleted = FALSE
    /\ reviews # <<>>

\* C8 as stated: a filter string that is none of positive, negative, neutral
\* (the empty string included) is applied as an equality test and matches
\* nothing.
C8_UnknownFilterMatchesNothing ==
    (call.op = "get_reviews" /\ call.sentiment.type = "str"
        /\ call.sentiment.label \notin Sentiments) => call.rows = <<>>

\* C9: every stored review has a text that is not blank and a sentiment that
\* is one of the three labels and is analyze of its own text.
C9_StoredReviewsValid ==
    \A i \in 1..Len(reviews) :
        /\ ~Blank(reviews[i].text)
        /\ reviews[i].sentiment \in Sentiments
        /\ reviews[i].sentiment = analyze(PyStr(reviews[i].text))

\* a padded review is stored and the last create_review was refused
C9_Witness ==
    /\ call.op = "create_review"
    /\ call.raised = "ValueError"
    /\ \E i \in 1..Len(reviews) : reviews[i].text # strip(reviews[i].text)

\* C10: create_review and get_reviews keep every stored record as it was;
\* a delete keeps every record whose id is not the one named.
C10_Frame ==
    [][ /\ call'.op \in {"create_review", "get_reviews"} =>
            \A r \in Range(reviews) : r \in Range(reviews')
        /\ call'.op \in {"delete_review", "DELETE /reviews/<id>"} =>
            \A r \in Range(reviews) :
                r.id # call'.review_id => r \in Range(reviews')
        /\ \A r \in Range(reviews), q \in Range(reviews') : r.id = q.id => r = q
      ]_vars

\* a delete removed one review and another is still stored
C10_Witness ==
    /\ call.op = "delete_review"
    /\ call.deleted
    /\ reviews # <<>>
    /\ \E i \in 1..Len(reviews) : reviews[i].id > call.review_id
====
